---- MODULE Spec2Model ----
(***************************************************************************)
(* A model of deepl_haystack: the two DeepL translator components of       *)
(* src/deepl_haystack/components.py (DeepLTextTranslator and               *)
(* DeepLDocumentTranslator), driven by a caller that constructs one        *)
(* component, calls its run and to_dict methods and loads a component back *)
(* with from_dict, with the DeepL client replaced by a stand-in whose      *)
(* answers are chosen by the environment.                                  *)
(***************************************************************************)
EXTENDS Integers, Sequences, FiniteSets, TLC

VARIABLES
    environ,      \* os.environ: the environment variables that are set, with their values
    max_network_retries, \* deepl.http_client.max_network_retries, a global of the client library
    component,    \* the component under test, or NoComponent
    call,         \* the call the caller made last (operation and arguments)
    result,       \* how that call ended: Idle, Return(value) or Raise(exception)
    client_calls, \* the calls that call made to Translator.translate_text, with their outcomes
    warnings,     \* the messages that call logged with logger.warning
    data,         \* the mapping handed to from_dict, as that call left it, or NoData
    input_documents \* the list handed to the document run, as that call left it, or NoData

vars == <<environ, max_network_retries, component, call, result, client_calls, warnings,
          data, input_documents>>

----------------------------------------------------------------------------
(* Bounds of the model.                                                    *)

\* longest list of documents handed to DeepLDocumentTranslator.run
MaxDocs == 2
\* longest list of target languages handed to DeepLDocumentTranslator
MaxLangs == 2

----------------------------------------------------------------------------
(* Python values. Every value carries its type, as isinstance sees it.     *)

None == [type |-> "NoneType"]
Str(s) == [type |-> "str", s |-> s]
PyInt(n) == [type |-> "int", n |-> n]
Float(x) == [type |-> "float", x |-> x]
List(items) == [type |-> "list", items |-> items]
Object == [type |-> "object"]

isinstance(v, t) == v.type = t

\* bool(v): None, "", 0 and [] are false, everything else is true
Truthy(v) ==
    CASE v.type = "NoneType" -> FALSE
      [] v.type = "str" -> v.s # ""
      [] v.type = "int" -> v.n # 0
      [] v.type = "float" -> v.x # 0
      [] v.type = "list" -> v.items # <<>>
      [] OTHER -> TRUE

\* a or b
Or(a, b) == IF Truthy(a) THEN a ELSE b

\* haystack.Document(content=..., meta=..., score=...)
Document(content, meta, score) ==
    [type |-> "Document", content |-> content, meta |-> meta, score |-> score]

\* d.get(key): the value stored under key, None when the key is absent
Get(d, key) == IF key \in DOMAIN d THEN d[key] ELSE None

Min(a, b) == IF a <= b THEN a ELSE b

\* the sequences over S of length lo..hi
SeqsOf(S, lo, hi) == UNION {[1..n -> S] : n \in lo..hi}

----------------------------------------------------------------------------
(* Outcomes of a call.                                                     *)

Idle == [kind |-> "idle"]
Return(value) == [kind |-> "return", value |-> value]
Raise(exc) == [kind |-> "raise", exc |-> exc]
\* an exception of a constructor, with the message that tells it from the
\* others of its type
RaiseMsg(exc, msg) == [kind |-> "raise", exc |-> exc, msg |-> msg]

NoCall == [op |-> "none"]
NoComponent == [cls |-> "none"]
NoData == [type |-> "none"]

----------------------------------------------------------------------------
(* The DeepL client. Translator.translate_text is outside the repository;  *)
(* the stand-in answers as the test suite's translate_text_mock does (one  *)
(* TextResult for a string, a list of TextResult, one per text and in      *)
(* order, for a list), or raises DeepLException. Which call fails and      *)
(* which texts are detected as English is the environment's choice, the    *)
(* oracle.                                                                 *)

\* the text the service returns for text t translated into language lang
Translate(t, lang) == lang \o ":" \o t

TextResult(t, lang, oracle) ==
    [type |-> "TextResult",
     text |-> Str(Translate(t, lang)),
     detected_source_lang |-> Str(IF t \in oracle.english THEN "EN" ELSE "DE")]

\* the n-th call of a run to Translator.translate_text(text, **kwargs)
translate_text(oracle, n, text, kwargs) ==
    IF oracle.failAt = n
    THEN Raise("DeepLException")
    ELSE IF isinstance(text, "str")
         THEN Return(TextResult(text.s, kwargs.target_lang.s, oracle))
         ELSE Return(List([i \in 1..Len(text.items) |->
                  TextResult(text.items[i].s, kwargs.target_lang.s, oracle)]))

\* Propagated with the client's exception wrapped in one of the component's
Propagated_Wrapped(outcome) == Raise("RuntimeError")

\* how a run ends when translate_text raises: the call stands in no try
\* block, the client's exception leaves run as it is
Propagated(outcome) == outcome

----------------------------------------------------------------------------
(* haystack.utils.Secret, as the components use it.                        *)

\* Secret.from_env_var(name)
EnvVarSecret(name) == [type |-> "EnvVarSecret", _env_vars |-> <<name>>, _strict |-> TRUE]

\* Secret.to_dict(): the reference to the variable, never its value
Secret_to_dict(secret) ==
    [type |-> Str("env_var"),
     env_vars |-> List([i \in 1..Len(secret._env_vars) |-> Str(secret._env_vars[i])]),
     strict |-> secret._strict]

\* Secret.from_dict(d)
Secret_from_dict(d) ==
    [type |-> "EnvVarSecret",
     _env_vars |-> [i \in 1..Len(d.env_vars.items) |-> d.env_vars.items[i].s],
     _strict |-> d.strict]

\* deserialize_secrets_inplace(params, keys): what params holds afterwards
deserialize_secrets_inplace(params, keys) ==
    [k \in DOMAIN params |->
        IF k \in keys /\ params[k] # None THEN Secret_from_dict(params[k]) ELSE params[k]]

NoCredential == "None of the following authentication environment variables are set"

\* resolve_value of a secret that is never strict
resolve_value_Lenient(secret, env) ==
    IF secret._env_vars[1] \in DOMAIN env
    THEN Return(Str(env[secret._env_vars[1]]))
    ELSE Return(None)

\* Secret.resolve_value(): the value of the variable, an error when a strict
\* secret's variable is not set
resolve_value(secret, env) ==
    IF secret._env_vars[1] \in DOMAIN env
    THEN Return(Str(env[secret._env_vars[1]]))
    ELSE IF secret._strict THEN RaiseMsg("ValueError", NoCredential) ELSE Return(None)

\* Translator(auth_key=str(value)): the client handle a component holds
Translator(value) ==
    [auth_key |-> IF isinstance(value, "str") THEN value.s ELSE "None"]

----------------------------------------------------------------------------
(* deepl.Formality and deepl.SplitSentences: enumerations of strings.      *)

FormalityValues == {"less", "more", "default", "prefer_more", "prefer_less"}
SplitSentencesValues == {"0", "1", "nonewlines"}

\* the member of enumeration enum whose .value is the string v
Member(enum, v) == [type |-> enum, value |-> Str(v)]

\* Enum.__call__: the member itself, the member with that value, or ValueError
EnumCall(enum, values, v) ==
    IF isinstance(v, enum) THEN Return(v)
    ELSE IF isinstance(v, "str") /\ v.s \in values THEN Return(Member(enum, v.s))
    ELSE RaiseMsg("ValueError", "is not a valid " \o enum)

\* Formality(formality or Formality.DEFAULT)
Formality(formality) ==
    EnumCall("Formality", FormalityValues, Or(formality, Member("Formality", "default")))

\* SplitSentences(split_sentences or SplitSentences.DEFAULT), DEFAULT being ALL
SplitSentences(split_sentences) ==
    EnumCall("SplitSentences", SplitSentencesValues,
             Or(split_sentences, Member("SplitSentences", "1")))

----------------------------------------------------------------------------
(* The parameters of the two constructors.                                 *)

\* the arguments the constructors default to
TextDefaults ==
    [api_key |-> EnvVarSecret("DEEPL_API_KEY"),
     source_lang |-> None,
     target_lang |-> Str("EN-US"),
     formality |-> None,
     max_retries |-> PyInt(5),
     preserve_formatting |-> FALSE,
     split_sentences |-> None,
     context |-> None,
     glossary |-> None,
     tag_handling |-> None,
     outline_detection |-> TRUE,
     non_splitting_tags |-> None,
     splitting_tags |-> None,
     ignore_tags |-> None]

DocDefaults ==
    [k \in DOMAIN TextDefaults \cup {"include_score"} |->
        IF k = "include_score" THEN TRUE ELSE TextDefaults[k]]

----------------------------------------------------------------------------
(* DeepLDocumentTranslator                                                 *)

DocTargetLangMessage ==
    "target_lang must be a string representing a language code or a list of language codes."

\* the check of target_lang that opens DeepLDocumentTranslator.__init__
DocTargetLangOk(target_lang) ==
    /\ isinstance(target_lang, "str") \/ isinstance(target_lang, "list")
    /\ isinstance(target_lang, "list") =>
           \A i \in 1..Len(target_lang.items) : isinstance(target_lang.items[i], "str")

\* DeepLDocumentTranslator.__init__ with target_lang tested after the
\* credential is resolved and the client is created
DeepLDocumentTranslator_new_CredentialFirst(args, env, retries) ==
    LET key == resolve_value(args.api_key, env)
        formality == Formality(args.formality)
        split == SplitSentences(args.split_sentences)
        failed(r) == [component |-> NoComponent,
                      max_network_retries |-> args.max_retries, result |-> r]
    IN  IF key.kind = "raise" THEN failed(key)
        ELSE IF ~DocTargetLangOk(args.target_lang)
        THEN failed(RaiseMsg("TypeError", DocTargetLangMessage))
        ELSE IF formality.kind = "raise" THEN failed(formality)
        ELSE IF split.kind = "raise" THEN failed(split)
        ELSE [component |->
                 [cls |-> "DeepLDocumentTranslator",
                  api_key |-> args.api_key,
                  max_retries |-> args.max_retries,
                  client |-> Translator(key.value),
                  source_lang |-> args.source_lang,
                  target_lang |-> args.target_lang,
                  formality |-> formality.value,
                  preserve_formatting |-> args.preserve_formatting,
                  split_sentences |-> split.value,
                  context |-> args.context,
                  glossary |-> args.glossary,
                  tag_handling |-> args.tag_handling,
                  outline_detection |-> args.outline_detection,
                  non_splitting_tags |-> args.non_splitting_tags,
                  splitting_tags |-> args.splitting_tags,
                  ignore_tags |-> args.ignore_tags,
                  include_score |-> args.include_score],
              max_network_retries |-> args.max_retries,
              result |-> Return(None)]

\* DeepLDocumentTranslator.__init__(**args): the component built, the value
\* http_client.max_network_retries is left with, and how the call ends
DeepLDocumentTranslator_new(args, env, retries) ==
    IF ~DocTargetLangOk(args.target_lang)
    THEN [component |-> NoComponent, max_network_retries |-> retries,
          result |-> RaiseMsg("TypeError", DocTargetLangMessage)]
    ELSE
    LET key == resolve_value(args.api_key, env)
        formality == Formality(args.formality)
        split == SplitSentences(args.split_sentences)
        failed(r) == [component |-> NoComponent,
                      max_network_retries |-> args.max_retries, result |-> r]
    IN  IF key.kind = "raise" THEN failed(key)
        ELSE IF formality.kind = "raise" THEN failed(formality)
        ELSE IF split.kind = "raise" THEN failed(split)
        ELSE [component |->
                 [cls |-> "DeepLDocumentTranslator",
                  api_key |-> args.api_key,
                  max_retries |-> args.max_retries,
                  client |-> Translator(key.value),
                  source_lang |-> args.source_lang,
                  target_lang |-> args.target_lang,
                  formality |-> formality.value,
                  preserve_formatting |-> args.preserve_formatting,
                  split_sentences |-> split.value,
                  context |-> args.context,
                  glossary |-> args.glossary,
                  tag_handling |-> args.tag_handling,
                  outline_detection |-> args.outline_detection,
                  non_splitting_tags |-> args.non_splitting_tags,
                  splitting_tags |-> args.splitting_tags,
                  ignore_tags |-> args.ignore_tags,
                  include_score |-> args.include_score],
              max_network_retries |-> args.max_retries,
              result |-> Return(None)]

\* DocInputOk with the emptiness test ahead of the type test: whatever counts
\* as false passes for the empty list
DocInputOk_EmptyFirst(documents) ==
    \/ ~Truthy(documents)
    \/ /\ isinstance(documents, "list")
       /\ \A i \in 1..Len(documents.items) : isinstance(documents.items[i], "Document")

\* the check of documents that opens DeepLDocumentTranslator.run
DocInputOk(documents) ==
    /\ isinstance(documents, "list")
    /\ \A i \in 1..Len(documents.items) : isinstance(documents.items[i], "Document")

\* NoDocuments without the shortcut, as in the earlier run: the empty list is
\* sent to the client like any other
NoDocuments_Never(documents) == FALSE

\* `if not documents`: the empty list is answered without a translation
NoDocuments(documents) == ~Truthy(documents)

\* the items of a list, last first
RECURSIVE Reversed(_)
Reversed(items) ==
    IF items = <<>> THEN <<>> ELSE Append(Reversed(Tail(items)), Head(items))

\* target_languages with a list of codes taken last code first
target_languages_Reversed(self) ==
    IF isinstance(self.target_lang, "list")
    THEN Reversed(self.target_lang.items) ELSE <<self.target_lang>>

\* the list run iterates over: self.target_lang, wrapped when it is one code
target_languages(self) ==
    IF isinstance(self.target_lang, "list")
    THEN self.target_lang.items ELSE <<self.target_lang>>

\* Batch that leaves out only the documents without content
Batch_NoneOnly(documents) ==
    LET keep(d) == d.content # None
        content(i) == SelectSeq(documents, keep)[i]
    IN  [i \in 1..Len(SelectSeq(documents, keep)) |-> content(i).content]

\* [doc.content for doc in documents if doc.content]
Batch(documents) ==
    LET keep(d) == Truthy(d.content)
        content(i) == SelectSeq(documents, keep)[i]
    IN  [i \in 1..Len(SelectSeq(documents, keep)) |-> content(i).content]

\* ResolveSourceLang with the configured language ahead of the call's
ResolveSourceLang_ConfigFirst(source_lang, self) ==
    Or(Or(self.source_lang, source_lang), None)

\* source_lang or self.source_lang or None
ResolveSourceLang(source_lang, self) == Or(Or(source_lang, self.source_lang), None)

\* the condition under which run logs the overwrite warning for a document
MetaWarns(document) ==
    Truthy(Get(document.meta, "language")) \/ Truthy(Get(document.meta, "source_lang"))

\* the metadata keys run sets on every document it returns
ReservedKeys == {"source_lang", "language"}

OverwriteWarning ==
    "Document meta already contains language or source_lang. These fields will be overwritten."

\* OutputMeta with the overlay the wrong way round, {"source_lang": detected,
\* "language": target_lang, **document.meta}: the caller's keys win
OutputMeta_CallerWins(meta, detected, target_lang) ==
    [k \in DOMAIN meta \cup ReservedKeys |->
        IF k \in DOMAIN meta THEN meta[k]
        ELSE IF k = "language" THEN target_lang
        ELSE detected]

\* {**document.meta, "source_lang": detected, "language": target_lang}
OutputMeta(meta, detected, target_lang) ==
    [k \in DOMAIN meta \cup ReservedKeys |->
        IF k = "language" THEN target_lang
        ELSE IF k = "source_lang" THEN detected
        ELSE meta[k]]

\* OutputScore with include_score ignored
OutputScore_Always(self, document) == document.score

\* document.score if self.include_score else None
OutputScore(self, document) == IF self.include_score THEN document.score ELSE None

\* the Document run appends for one (document, translation) pair of the zip
TranslatedDocument(self, document, translation, target_lang) ==
    Document(translation.text,
             OutputMeta(document.meta, translation.detected_source_lang, target_lang),
             OutputScore(self, document))

\* the body of `for target_lang in target_languages`, from the n-th language
\* on: acc holds translated_documents, the client's calls and the warnings
RECURSIVE run_loop(_, _, _, _, _, _)
run_loop(self, documents, source_lang, oracle, n, acc) ==
    IF n > Len(target_languages(self))
    THEN [result |-> Return([documents |-> List(acc.translated_documents)]),
          client_calls |-> acc.client_calls, warnings |-> acc.warnings]
    ELSE
    LET target_lang == target_languages(self)[n]
        text == List(Batch(documents))
        kwargs == [source_lang |-> ResolveSourceLang(source_lang, self),
                   target_lang |-> target_lang,
                   formality |-> self.formality]
        outcome == translate_text(oracle, n, text, kwargs)
        calls == Append(acc.client_calls,
                        [text |-> text, kwargs |-> kwargs, outcome |-> outcome])
    IN  IF outcome.kind = "raise"
        THEN [result |-> Propagated(outcome), client_calls |-> calls,
              warnings |-> acc.warnings]
        ELSE
        LET translations == outcome.value.items
            zipped == Min(Len(documents), Len(translations))
            built == [i \in 1..zipped |->
                         TranslatedDocument(self, documents[i], translations[i], target_lang)]
            warned == SelectSeq([i \in 1..zipped |-> documents[i]], MetaWarns)
            logged == [i \in 1..Len(warned) |-> OverwriteWarning]
        IN  run_loop(self, documents, source_lang, oracle, n + 1,
                     [translated_documents |-> acc.translated_documents \o built,
                      client_calls |-> calls,
                      warnings |-> acc.warnings \o logged])

\* InputAfterRun of a run that sets the reserved keys in the metadata of
\* the documents it was handed (document.meta.update) instead of in a copy
InputAfterRun_MetaUpdated(self, documents) ==
    IF ~DocInputOk(documents) THEN documents
    ELSE List([i \in 1..Len(documents.items) |->
                  [documents.items[i] EXCEPT
                      !.meta = OutputMeta(@, None, self.target_lang)]])

\* the list handed to run as run leaves it: run assigns no attribute of a
\* document and no element of the list, the metadata it returns is the new
\* mapping {**document.meta, ...}
InputAfterRun(self, documents) == documents

\* DeepLDocumentTranslator.run(documents, source_lang)
DeepLDocumentTranslator_run_result(self, documents, source_lang, oracle) ==
    IF ~DocInputOk(documents)
    THEN [result |-> Raise("TypeError"), client_calls |-> <<>>, warnings |-> <<>>]
    ELSE IF NoDocuments(documents)
    THEN [result |-> Return([documents |-> List(<<>>)]), client_calls |-> <<>>,
          warnings |-> <<"No documents provided for translation.">>]
    ELSE run_loop(self, documents.items, source_lang, oracle, 1,
                  [translated_documents |-> <<>>, client_calls |-> <<>>,
                   warnings |-> <<>>])

----------------------------------------------------------------------------
(* DeepLTextTranslator                                                     *)

TextTargetLangMessage == "target_lang must be a string representing a language code."

\* TextTargetLangError as the document component has it
TextTargetLangError_Type == "TypeError"

\* the exception DeepLTextTranslator.__init__ raises for its target_lang
TextTargetLangError == "ValueError"

\* the check of target_lang that opens DeepLTextTranslator.__init__
TextTargetLangOk(target_lang) == isinstance(target_lang, "str") /\ Truthy(target_lang)

\* DeepLTextTranslator.__init__(**args): the component built, the value
\* http_client.max_network_retries is left with, and how the call ends
DeepLTextTranslator_new(args, env, retries) ==
    IF ~TextTargetLangOk(args.target_lang)
    THEN [component |-> NoComponent, max_network_retries |-> retries,
          result |-> RaiseMsg(TextTargetLangError, TextTargetLangMessage)]
    ELSE
    LET key == resolve_value(args.api_key, env)
        formality == Formality(args.formality)
        split == SplitSentences(args.split_sentences)
        failed(r) == [component |-> NoComponent,
                      max_network_retries |-> args.max_retries, result |-> r]
    IN  IF key.kind = "raise" THEN failed(key)
        ELSE IF formality.kind = "raise" THEN failed(formality)
        ELSE IF split.kind = "raise" THEN failed(split)
        ELSE [component |->
                 [cls |-> "DeepLTextTranslator",
                  api_key |-> args.api_key,
                  max_retries |-> args.max_retries,
                  client |-> Translator(key.value),
                  source_lang |-> args.source_lang,
                  target_lang |-> args.target_lang,
                  formality |-> formality.value,
                  preserve_formatting |-> args.preserve_formatting,
                  split_sentences |-> split.value,
                  context |-> args.context,
                  glossary |-> args.glossary,
                  tag_handling |-> args.tag_handling,
                  outline_detection |-> args.outline_detection,
                  non_splitting_tags |-> args.non_splitting_tags,
                  splitting_tags |-> args.splitting_tags,
                  ignore_tags |-> args.ignore_tags],
              max_network_retries |-> args.max_retries,
              result |-> Return(None)]

\* TextInputError without the test for the empty text
TextInputError_NoEmptyCheck(text) ==
    IF ~isinstance(text, "str") THEN "TypeError" ELSE "none"

\* TextInputError with the two tests in the other order
TextInputError_EmptyFirst(text) ==
    IF ~Truthy(text) THEN "ValueError"
    ELSE IF ~isinstance(text, "str") THEN "TypeError"
    ELSE "none"

\* the two checks of text that open DeepLTextTranslator.run, in their order:
\* the exception raised, "none" when the text passes
TextInputError(text) ==
    IF ~isinstance(text, "str") THEN "TypeError"
    ELSE IF ~Truthy(text) THEN "ValueError"
    ELSE "none"

\* TextKwargs with preserve_formatting left at the client's default
TextKwargs_DefaultFormatting(self, source_lang) ==
    [source_lang |-> ResolveSourceLang(source_lang, self),
     target_lang |-> self.target_lang,
     formality |-> self.formality,
     preserve_formatting |-> FALSE,
     split_sentences |-> self.split_sentences,
     context |-> self.context,
     glossary |-> self.glossary,
     tag_handling |-> self.tag_handling,
     outline_detection |-> self.outline_detection,
     non_splitting_tags |-> self.non_splitting_tags,
     splitting_tags |-> self.splitting_tags,
     ignore_tags |-> self.ignore_tags]

\* the keyword arguments of the text component's call to translate_text
TextKwargs(self, source_lang) ==
    [source_lang |-> ResolveSourceLang(source_lang, self),
     target_lang |-> self.target_lang,
     formality |-> self.formality,
     preserve_formatting |-> self.preserve_formatting,
     split_sentences |-> self.split_sentences,
     context |-> self.context,
     glossary |-> self.glossary,
     tag_handling |-> self.tag_handling,
     outline_detection |-> self.outline_detection,
     non_splitting_tags |-> self.non_splitting_tags,
     splitting_tags |-> self.splitting_tags,
     ignore_tags |-> self.ignore_tags]

\* TextOutput with the two languages of meta exchanged
TextOutput_Swapped(self, translation) ==
    [translation |-> translation.text,
     meta |-> [source_lang |-> self.target_lang,
               language |-> translation.detected_source_lang]]

\* the mapping run returns for a translation
TextOutput(self, translation) ==
    [translation |-> translation.text,
     meta |-> [source_lang |-> translation.detected_source_lang,
               language |-> self.target_lang]]

\* DeepLTextTranslator.run(text, source_lang)
DeepLTextTranslator_run_result(self, text, source_lang, oracle) ==
    IF TextInputError(text) # "none"
    THEN [result |-> Raise(TextInputError(text)), client_calls |-> <<>>, warnings |-> <<>>]
    ELSE
    LET kwargs == TextKwargs(self, source_lang)
        outcome == translate_text(oracle, 1, text, kwargs)
        calls == <<[text |-> text, kwargs |-> kwargs, outcome |-> outcome]>>
    IN  IF outcome.kind = "raise"
        THEN [result |-> Propagated(outcome), client_calls |-> calls, warnings |-> <<>>]
        ELSE [result |-> Return(TextOutput(self, outcome.value)),
              client_calls |-> calls, warnings |-> <<>>]

\* AfterRun with the override of a call kept as the configured source language
AfterRun_KeepsOverride(self, source_lang) ==
    [self EXCEPT !.source_lang = Or(source_lang, self.source_lang)]

\* the component as run(..., source_lang) leaves it: neither run assigns an
\* attribute of self
AfterRun(self, source_lang) == self

----------------------------------------------------------------------------
(* to_dict and from_dict, with haystack's default_to_dict and              *)
(* default_from_dict as the components use them.                           *)

\* the fully-qualified name of class cls, the "type" of a serialized component
ClassPath(cls) == "deepl_haystack.components." \o cls

\* default_to_dict(self, **params)
default_to_dict(self, params) ==
    [type |-> ClassPath(self.cls), init_parameters |-> params]

\* EnumValue with the member itself in place of its value
EnumValue_Member(member) == member

\* member.value, the string serialized for an enumeration's member
EnumValue(member) == member.value

\* DeepLTextTranslator.to_dict()
DeepLTextTranslator_to_dict_result(self) ==
    default_to_dict(self,
        [api_key |-> Secret_to_dict(self.api_key),
         source_lang |-> self.source_lang,
         target_lang |-> self.target_lang,
         formality |-> EnumValue(self.formality),
         preserve_formatting |-> self.preserve_formatting,
         split_sentences |-> EnumValue(self.split_sentences),
         context |-> self.context,
         glossary |-> self.glossary,
         tag_handling |-> self.tag_handling,
         outline_detection |-> self.outline_detection,
         non_splitting_tags |-> self.non_splitting_tags,
         splitting_tags |-> self.splitting_tags,
         ignore_tags |-> self.ignore_tags])

\* DeepLDocumentTranslator.to_dict()
DeepLDocumentTranslator_to_dict_result(self) ==
    default_to_dict(self,
        [api_key |-> Secret_to_dict(self.api_key),
         source_lang |-> self.source_lang,
         target_lang |-> self.target_lang,
         formality |-> EnumValue(self.formality),
         preserve_formatting |-> self.preserve_formatting,
         split_sentences |-> EnumValue(self.split_sentences),
         context |-> self.context,
         glossary |-> self.glossary,
         tag_handling |-> self.tag_handling,
         outline_detection |-> self.outline_detection,
         non_splitting_tags |-> self.non_splitting_tags,
         splitting_tags |-> self.splitting_tags,
         ignore_tags |-> self.ignore_tags,
         include_score |-> self.include_score])

\* cls(**init_parameters): the arguments __init__ receives, a parameter the
\* mapping does not name taking its default
InitArgs(defaults, init_parameters) ==
    [k \in DOMAIN defaults |->
        IF k \in DOMAIN init_parameters THEN init_parameters[k] ELSE defaults[k]]

\* MappingAfter of a from_dict that deserializes into a copy
MappingAfter_Untouched(d, params) == d

\* the mapping handed to from_dict once deserialize_secrets_inplace has
\* assigned to its init_parameters
MappingAfter(d, params) == [d EXCEPT !.init_parameters = params]

\* DeepLTextTranslator.from_dict(data): the mapping as the call leaves it and
\* the construction default_from_dict ends with
DeepLTextTranslator_from_dict_result(d, env, retries) ==
    LET params == deserialize_secrets_inplace(d.init_parameters, {"api_key"})
    IN  [data |-> MappingAfter(d, params),
         new |-> DeepLTextTranslator_new(InitArgs(TextDefaults, params), env, retries)]

\* DeepLDocumentTranslator.from_dict(data)
DeepLDocumentTranslator_from_dict_result(d, env, retries) ==
    LET params == deserialize_secrets_inplace(d.init_parameters, {"api_key"})
    IN  [data |-> MappingAfter(d, params),
         new |-> DeepLDocumentTranslator_new(InitArgs(DocDefaults, params), env, retries)]

----------------------------------------------------------------------------
(* The earlier DeepLDocumentTranslator, the class of                       *)
(* components/translators/deepl/translator.py that the package exports:    *)
(* four parameters, one target language, one call of the client for a run. *)

translator_cls == "translators.deepl.translator.DeepLDocumentTranslator"

\* the arguments the earlier constructor defaults to
translator_DocDefaults ==
    [api_key |-> EnvVarSecret("DEEPL_API_KEY"),
     source_lang |-> None,
     target_lang |-> Str("EN-US"),
     formality |-> None]

\* DeepLDocumentTranslator(**args) of translator.py: no test of target_lang,
\* no max_retries; the credential is resolved, then the formality
translator_DeepLDocumentTranslator_new(args, env) ==
    LET key == resolve_value(args.api_key, env)
        formality == Formality(args.formality)
    IN  IF key.kind = "raise" THEN [component |-> NoComponent, result |-> key]
        ELSE IF formality.kind = "raise"
        THEN [component |-> NoComponent, result |-> formality]
        ELSE [component |->
                 [cls |-> translator_cls,
                  api_key |-> args.api_key,
                  client |-> Translator(key.value),
                  source_lang |-> args.source_lang,
                  target_lang |-> args.target_lang,
                  formality |-> formality.value],
              result |-> Return(None)]

\* dict(**document.meta, source_lang=detected, language=target_lang): a key
\* of meta that is also given as a keyword is a TypeError (multiple values
\* for keyword argument), whatever value it holds
translator_meta(meta, detected, target_lang) ==
    IF DOMAIN meta \cap {"source_lang", "language"} # {}
    THEN Raise("TypeError")
    ELSE Return([k \in DOMAIN meta \cup {"source_lang", "language"} |->
                    IF k = "language" THEN target_lang
                    ELSE IF k = "source_lang" THEN detected
                    ELSE meta[k]])

\* DeepLDocumentTranslator.run(documents, source_lang) of translator.py
translator_DeepLDocumentTranslator_run_result(self, documents, source_lang, oracle) ==
    IF ~DocInputOk(documents)
    THEN [result |-> Raise("TypeError"), client_calls |-> <<>>]
    ELSE
    LET text == List([i \in 1..Len(documents.items) |-> documents.items[i].content])
        kwargs == [source_lang |-> Or(Or(source_lang, self.source_lang), None),
                   target_lang |-> self.target_lang,
                   formality |-> self.formality]
        outcome == translate_text(oracle, 1, text, kwargs)
        calls == <<[text |-> text, kwargs |-> kwargs, outcome |-> outcome]>>
    IN  IF outcome.kind = "raise"
        THEN [result |-> outcome, client_calls |-> calls]
        ELSE
        LET translations == outcome.value.items
            zipped == Min(Len(documents.items), Len(translations))
            metas == [i \in 1..zipped |->
                         translator_meta(documents.items[i].meta,
                                         translations[i].detected_source_lang,
                                         self.target_lang)]
        IN  IF \E i \in 1..zipped : metas[i].kind = "raise"
            THEN [result |-> Raise("TypeError"), client_calls |-> calls]
            ELSE [result |->
                     Return([documents |->
                         List([i \in 1..zipped |->
                             Document(translations[i].text, metas[i].value, None)])]),
                  client_calls |-> calls]

\* DeepLDocumentTranslator.to_dict() of translator.py
translator_DeepLDocumentTranslator_to_dict_result(self) ==
    default_to_dict(self,
        [api_key |-> Secret_to_dict(self.api_key),
         source_lang |-> self.source_lang,
         target_lang |-> self.target_lang,
         formality |-> EnumValue(self.formality)])

\* DeepLDocumentTranslator.from_dict(data) of translator.py
translator_DeepLDocumentTranslator_from_dict_result(d, env) ==
    LET params == deserialize_secrets_inplace(d.init_parameters, {"api_key"})
    IN  [data |-> MappingAfter(d, params),
         new |-> translator_DeepLDocumentTranslator_new(
                     InitArgs(translator_DocDefaults, params), env)]

----------------------------------------------------------------------------
(* What the caller passes in.                                              *)

Langs == {"ES", "FR"}
Texts == {"a", "b"}

WrongTargetLangs == {PyInt(1), None}

TextTargetLangArgs ==
    {Str(l) : l \in Langs} \cup {Str(""), List(<<Str("ES")>>)} \cup WrongTargetLangs

DocTargetLangArgs ==
    {Str("ES"), Str("")}
        \cup {List(l) : l \in SeqsOf({Str(l) : l \in Langs}, 0, MaxLangs)}
        \cup {List(<<Str("ES"), PyInt(1)>>)} \cup WrongTargetLangs

TextInitArgs == {[TextDefaults EXCEPT !.target_lang = t] : t \in TextTargetLangArgs}

DocInitArgs ==
    {[DocDefaults EXCEPT !.target_lang = t, !.include_score = s] :
        t \in DocTargetLangArgs, s \in BOOLEAN}

\* what run is handed as text
TextInputs ==
    {Str(t) : t \in Texts}
        \cup {Str(""), None, PyInt(0), PyInt(1), Object, List(<<>>),
              List(<<Str("one string"), Str("other string")>>)}

Contents == {None, Str("")} \cup {Str(t) : t \in Texts}
Scores == {None, Float(1)}
\* the mappings handed in as metadata: the empty one, meta_1 alone, and meta_1
\* with one reserved key under an empty or a non-empty value
Metas ==
    {<<>>, [meta_1 |-> Str("foo")]}
        \cup {[meta_1 |-> Str("foo"), language |-> v] : v \in {Str(""), Str("FR")}}
        \cup {[meta_1 |-> Str("foo"), source_lang |-> v] : v \in {None, Str("EN")}}

BaseContent == Str("a")
BaseMeta == [meta_1 |-> Str("foo")]
BaseScore == Float(1)

\* the documents of the model: a base document with its content, its metadata
\* or its score varied
Documents ==
    {Document(c, BaseMeta, BaseScore) : c \in Contents}
        \cup {Document(BaseContent, m, BaseScore) : m \in Metas}
        \cup {Document(BaseContent, BaseMeta, s) : s \in Scores}

\* what run is handed as documents that is no list of documents
WrongDocInputs ==
    {None, PyInt(0), PyInt(1), Str("string"), Object}
        \cup {List(<<Str("x")>>)}
        \cup {List(<<Document(BaseContent, BaseMeta, BaseScore), Str("x")>>),
              List(<<PyInt(1), Document(BaseContent, BaseMeta, BaseScore)>>)}

DocInputs == {List(d) : d \in SeqsOf(Documents, 0, MaxDocs)} \cup WrongDocInputs

SourceLangArgs == {None}

\* the configurations one parameter away from base, the parameter k taking
\* the values of V
OneOff(base, k, V) == {[base EXCEPT ![k] = v] : v \in V}

\* the parameters of test_to_dict_with_parameters, over the defaults
WithParameters(defaults) ==
    [defaults EXCEPT !.source_lang = Str("DE"), !.target_lang = Str("ES"),
                     !.formality = Str("more"), !.preserve_formatting = TRUE,
                     !.split_sentences = Str("nonewlines"), !.context = Str("context"),
                     !.glossary = Str("glossary"), !.tag_handling = Str("xml"),
                     !.outline_detection = FALSE,
                     !.non_splitting_tags = Str("non_splitting_tags"),
                     !.splitting_tags = Str("splitting_tags"),
                     !.ignore_tags = Str("ignore_tags")]

\* configurations that differ from the defaults in one parameter, and the one
\* that differs in all
ConfigArgs(defaults) ==
    LET base == [defaults EXCEPT !.target_lang = Str("ES")]
        full == WithParameters(defaults)
    IN  {base, full}
            \cup OneOff(base, "source_lang", {Str(""), Str("DE")})
            \cup OneOff(base, "formality", {Str("more"), Member("Formality", "less"), Str("formal")})
            \cup OneOff(base, "max_retries", {PyInt(3)})
            \cup {[base EXCEPT !.target_lang = PyInt(1), !.max_retries = PyInt(3)]}
            \cup OneOff(base, "tag_handling", {Str("html"), Str("json")})
            \cup OneOff(base, "split_sentences",
                        {PyInt(0), PyInt(1), Str("0"), Member("SplitSentences", "nonewlines")})
            \cup UNION {OneOff(base, k, {full[k]}) :
                           k \in {"preserve_formatting", "context", "glossary", "tag_handling",
                                  "outline_detection", "non_splitting_tags", "splitting_tags",
                                  "ignore_tags"}}

TextConfigArgs == ConfigArgs(TextDefaults)

\* the arguments of a component constructed beside the caller's
OtherArgs ==
    OneOff([TextDefaults EXCEPT !.target_lang = Str("ES")], "max_retries",
           {PyInt(3), PyInt(5)})

DocConfigArgs ==
    ConfigArgs(DocDefaults)
        \cup OneOff(DocDefaults, "target_lang", {List(<<Str("ES"), Str("FR")>>)})
        \cup OneOff([DocDefaults EXCEPT !.target_lang = Str("ES")], "include_score", {FALSE})

\* the source_lang a call of run is handed: none, the empty string, a code
SourceLangOverrides == {None, Str(""), Str("IT")}

ConfigTextInputs == {Str("a"), Str("")}

ConfigDocInputs ==
    {List(d) : d \in SeqsOf({Document(BaseContent, BaseMeta, BaseScore)}, 0, MaxDocs)}
        \cup {None}

\* the mapping of test_from_dict for class cls, and one that names only the
\* credential and the target language
Data(cls) ==
    LET written ==
            [api_key |-> [type |-> Str("env_var"),
                          env_vars |-> List(<<Str("DEEPL_API_KEY")>>), strict |-> TRUE],
             source_lang |-> Str("DE"),
             target_lang |-> Str("ES"),
             formality |-> Str("more"),
             preserve_formatting |-> TRUE,
             split_sentences |-> Str("nonewlines"),
             context |-> Str("context"),
             glossary |-> Str("glossary"),
             tag_handling |-> Str("xml"),
             outline_detection |-> FALSE,
             non_splitting_tags |-> Str("non_splitting_tags"),
             splitting_tags |-> Str("splitting_tags"),
             ignore_tags |-> Str("ignore_tags")]
    IN  {[type |-> ClassPath(cls), init_parameters |-> written],
         [type |-> ClassPath(cls),
          init_parameters |-> [api_key |-> written.api_key, target_lang |-> Str("ES")]]}

\* the environment's choices for one run: the call that fails (0: none) and
\* the texts whose source language is detected as English
Oracles(calls) == [failAt : 0..calls, english : SUBSET {"a"}]

----------------------------------------------------------------------------
(* The state machine.                                                      *)

Init ==
    /\ environ \in {<<>>, [DEEPL_API_KEY |-> "fake-api-key"]}
    /\ max_network_retries = PyInt(5)
    /\ component = NoComponent
    /\ call = NoCall
    /\ result = Idle
    /\ client_calls = <<>>
    /\ warnings = <<>>
    /\ data = NoData
    /\ input_documents = NoData

\* the caller holds no outcome and no component: it may construct one
CanConstruct == result = Idle /\ component = NoComponent

\* the caller holds no outcome and a component of class cls: it may call run
CanRun(cls) == result = Idle /\ component.cls = cls

\* DeepLTextTranslator(**args): a caller without a component keeps the one
\* constructed, a caller that holds one constructs another beside it
DeepLTextTranslator_init(args) ==
    /\ result = Idle
    /\ LET new == DeepLTextTranslator_new(args, environ, max_network_retries) IN
        /\ component' = IF component = NoComponent THEN new.component ELSE component
        /\ max_network_retries' = new.max_network_retries
        /\ result' = new.result
    /\ call' = [op |-> "DeepLTextTranslator.__init__", args |-> args]
    /\ UNCHANGED <<environ, client_calls, warnings, data, input_documents>>

\* component = DeepLDocumentTranslator(**args)
DeepLDocumentTranslator_init(args) ==
    /\ CanConstruct
    /\ LET new == DeepLDocumentTranslator_new(args, environ, max_network_retries) IN
        /\ component' = new.component
        /\ max_network_retries' = new.max_network_retries
        /\ result' = new.result
    /\ call' = [op |-> "DeepLDocumentTranslator.__init__", args |-> args]
    /\ UNCHANGED <<environ, client_calls, warnings, data, input_documents>>

\* component.run(text, source_lang) on the text component
DeepLTextTranslator_run(text, source_lang, oracle) ==
    /\ CanRun("DeepLTextTranslator")
    /\ LET run == DeepLTextTranslator_run_result(component, text, source_lang, oracle) IN
        /\ result' = run.result
        /\ client_calls' = run.client_calls
        /\ warnings' = run.warnings
    /\ component' = AfterRun(component, source_lang)
    /\ call' = [op |-> "DeepLTextTranslator.run", text |-> text, source_lang |-> source_lang]
    /\ UNCHANGED <<environ, max_network_retries, data, input_documents>>

\* component.run(documents, source_lang) on the document component
DeepLDocumentTranslator_run(documents, source_lang, oracle) ==
    /\ CanRun("DeepLDocumentTranslator")
    /\ LET run == DeepLDocumentTranslator_run_result(component, documents, source_lang, oracle) IN
        /\ result' = run.result
        /\ client_calls' = run.client_calls
        /\ warnings' = run.warnings
    /\ call' = [op |-> "DeepLDocumentTranslator.run", documents |-> documents,
                source_lang |-> source_lang]
    /\ component' = AfterRun(component, source_lang)
    /\ input_documents' = InputAfterRun(component, documents)
    /\ UNCHANGED <<environ, max_network_retries, data>>

\* the caller holds the mapping d that to_dict of its component returned
HoldsMapping(cls, d) ==
    /\ call.op = cls \o ".to_dict"
    /\ result.kind = "return"
    /\ result.value = d

\* component.to_dict() on the text component
DeepLTextTranslator_to_dict ==
    /\ CanRun("DeepLTextTranslator")
    /\ result' = Return(DeepLTextTranslator_to_dict_result(component))
    /\ call' = [op |-> "DeepLTextTranslator.to_dict"]
    /\ UNCHANGED <<environ, max_network_retries, component, client_calls, warnings,
                   data, input_documents>>

\* component.to_dict() on the document component
DeepLDocumentTranslator_to_dict ==
    /\ CanRun("DeepLDocumentTranslator")
    /\ result' = Return(DeepLDocumentTranslator_to_dict_result(component))
    /\ call' = [op |-> "DeepLDocumentTranslator.to_dict"]
    /\ UNCHANGED <<environ, max_network_retries, component, client_calls, warnings,
                   data, input_documents>>

\* DeepLTextTranslator.from_dict(d), on a mapping the caller wrote or on the
\* one to_dict returned; a caller without a component keeps the one loaded
DeepLTextTranslator_from_dict(d) ==
    /\ CanConstruct \/ HoldsMapping("DeepLTextTranslator", d)
    /\ LET load == DeepLTextTranslator_from_dict_result(d, environ, max_network_retries) IN
        /\ data' = load.data
        /\ max_network_retries' = load.new.max_network_retries
        /\ result' = IF load.new.result.kind = "raise" THEN load.new.result
                      ELSE Return(load.new.component)
        /\ component' = IF component = NoComponent THEN load.new.component ELSE component
    /\ call' = [op |-> "DeepLTextTranslator.from_dict", data |-> d]
    /\ UNCHANGED <<environ, client_calls, warnings, input_documents>>

\* DeepLDocumentTranslator.from_dict(d)
DeepLDocumentTranslator_from_dict(d) ==
    /\ CanConstruct \/ HoldsMapping("DeepLDocumentTranslator", d)
    /\ LET load == DeepLDocumentTranslator_from_dict_result(d, environ, max_network_retries) IN
        /\ data' = load.data
        /\ max_network_retries' = load.new.max_network_retries
        /\ result' = IF load.new.result.kind = "raise" THEN load.new.result
                      ELSE Return(load.new.component)
        /\ component' = IF component = NoComponent THEN load.new.component ELSE component
    /\ call' = [op |-> "DeepLDocumentTranslator.from_dict", data |-> d]
    /\ UNCHANGED <<environ, client_calls, warnings, input_documents>>

\* the caller takes the outcome of its call; the mock of translate_text and
\* the captured log start afresh for the next call
Collect ==
    /\ result # Idle
    /\ call' = NoCall
    /\ result' = Idle
    /\ client_calls' = <<>>
    /\ warnings' = <<>>
    /\ data' = NoData
    /\ input_documents' = NoData
    /\ UNCHANGED <<environ, max_network_retries, component>>

Next ==
    \/ /\ CanConstruct
       /\ \E args \in TextInitArgs : DeepLTextTranslator_init(args)
    \/ /\ CanConstruct
       /\ \E args \in DocInitArgs : DeepLDocumentTranslator_init(args)
    \/ /\ CanRun("DeepLTextTranslator")
       /\ \E text \in TextInputs, source_lang \in SourceLangArgs, oracle \in Oracles(1) :
              DeepLTextTranslator_run(text, source_lang, oracle)
    \/ /\ CanRun("DeepLDocumentTranslator")
       /\ \E documents \in DocInputs, source_lang \in SourceLangArgs,
             oracle \in Oracles(Len(target_languages(component))) :
              DeepLDocumentTranslator_run(documents, source_lang, oracle)
    \/ Collect

Spec == Init /\ [][Next]_vars

\* the caller that varies the configuration and the source language of a
\* call, serializes its component and loads it back
NextConfig ==
    \/ /\ CanConstruct
       /\ \E args \in TextConfigArgs : DeepLTextTranslator_init(args)
    \/ /\ CanConstruct
       /\ \E args \in DocConfigArgs : DeepLDocumentTranslator_init(args)
    \/ /\ result = Idle /\ component # NoComponent
       /\ \E args \in OtherArgs : DeepLTextTranslator_init(args)
    \/ /\ CanRun("DeepLTextTranslator")
       /\ \E text \in ConfigTextInputs, source_lang \in SourceLangOverrides,
             oracle \in Oracles(1) :
              DeepLTextTranslator_run(text, source_lang, oracle)
    \/ /\ CanRun("DeepLDocumentTranslator")
       /\ \E documents \in ConfigDocInputs, source_lang \in SourceLangOverrides,
             oracle \in Oracles(Len(target_languages(component))) :
              DeepLDocumentTranslator_run(documents, source_lang, oracle)
    \/ DeepLTextTranslator_to_dict
    \/ DeepLDocumentTranslator_to_dict
    \/ /\ CanConstruct
       /\ \E d \in Data("DeepLTextTranslator") : DeepLTextTranslator_from_dict(d)
    \/ /\ CanConstruct
       /\ \E d \in Data("DeepLDocumentTranslator") : DeepLDocumentTranslator_from_dict(d)
    \/ /\ call.op = "DeepLTextTranslator.to_dict"
       /\ DeepLTextTranslator_from_dict(result.value)
    \/ /\ call.op = "DeepLDocumentTranslator.to_dict"
       /\ DeepLDocumentTranslator_from_dict(result.value)
    \/ Collect

SpecConfig == Init /\ [][NextConfig]_vars

\* what the caller of the earlier class passes to its constructor
translator_InitArgs ==
    {[translator_DocDefaults EXCEPT
          !.source_lang = s, !.target_lang = Str(t), !.formality = f] :
        s \in {None, Str("DE")}, t \in Langs,
        f \in {None, Str("more"), Str("formal")}}

\* the documents handed to the earlier run: string contents, every metadata
\* mapping of Metas
translator_Documents ==
    {Document(BaseContent, m, BaseScore) : m \in Metas}
        \cup {Document(Str("b"), <<>>, None)}

translator_DocInputs ==
    {List(d) : d \in SeqsOf(translator_Documents, 0, MaxDocs)} \cup WrongDocInputs

\* a mapping the caller wrote for from_dict of the earlier class
translator_Data ==
    [type |-> ClassPath(translator_cls),
     init_parameters |->
         [api_key |-> [type |-> Str("env_var"),
                       env_vars |-> List(<<Str("DEEPL_API_KEY")>>), strict |-> TRUE],
          target_lang |-> Str("ES"),
          formality |-> Str("less")]]

\* component = DeepLDocumentTranslator(**args), the class of translator.py
translator_DeepLDocumentTranslator_init(args) ==
    /\ CanConstruct
    /\ LET new == translator_DeepLDocumentTranslator_new(args, environ) IN
        /\ component' = new.component
        /\ result' = new.result
    /\ call' = [op |-> translator_cls \o ".__init__", args |-> args]
    /\ UNCHANGED <<environ, max_network_retries, client_calls, warnings, data,
                   input_documents>>

\* component.run(documents, source_lang) on the earlier document component
translator_DeepLDocumentTranslator_run(documents, source_lang, oracle) ==
    /\ CanRun(translator_cls)
    /\ LET run == translator_DeepLDocumentTranslator_run_result(
                      component, documents, source_lang, oracle) IN
        /\ result' = run.result
        /\ client_calls' = run.client_calls
    /\ call' = [op |-> translator_cls \o ".run", documents |-> documents,
                source_lang |-> source_lang]
    /\ input_documents' = documents
    /\ UNCHANGED <<environ, max_network_retries, component, warnings, data>>

\* component.to_dict() on the earlier document component
translator_DeepLDocumentTranslator_to_dict ==
    /\ CanRun(translator_cls)
    /\ result' = Return(translator_DeepLDocumentTranslator_to_dict_result(component))
    /\ call' = [op |-> translator_cls \o ".to_dict"]
    /\ UNCHANGED <<environ, max_network_retries, component, client_calls, warnings,
                   data, input_documents>>

\* DeepLDocumentTranslator.from_dict(d) of translator.py
translator_DeepLDocumentTranslator_from_dict(d) ==
    /\ CanConstruct \/ HoldsMapping(translator_cls, d)
    /\ LET load == translator_DeepLDocumentTranslator_from_dict_result(d, environ) IN
        /\ data' = load.data
        /\ result' = IF load.new.result.kind = "raise" THEN load.new.result
                      ELSE Return(load.new.component)
        /\ component' = IF component = NoComponent THEN load.new.component ELSE component
    /\ call' = [op |-> translator_cls \o ".from_dict", data |-> d]
    /\ UNCHANGED <<environ, max_network_retries, client_calls, warnings,
                   input_documents>>

\* the caller of the class the package exports
NextTranslator ==
    \/ /\ CanConstruct
       /\ \E args \in translator_InitArgs : translator_DeepLDocumentTranslator_init(args)
    \/ /\ CanRun(translator_cls)
       /\ \E documents \in translator_DocInputs, source_lang \in SourceLangOverrides,
             oracle \in Oracles(1) :
              translator_DeepLDocumentTranslator_run(documents, source_lang, oracle)
    \/ translator_DeepLDocumentTranslator_to_dict
    \/ /\ CanConstruct
       /\ translator_DeepLDocumentTranslator_from_dict(translator_Data)
    \/ /\ call.op = translator_cls \o ".to_dict"
       /\ translator_DeepLDocumentTranslator_from_dict(result.value)
    \/ Collect

SpecTranslator == Init /\ [][NextTranslator]_vars

----------------------------------------------------------------------------
(* What a state shows of the last call, for the properties below.          *)

IsDocRun == call.op = "DeepLDocumentTranslator.run"
IsTextRun == call.op = "DeepLTextTranslator.run"

\* the argument of the last run is a list and each of its elements a Document
InputIsDocumentList ==
    /\ call.documents.type = "list"
    /\ \A i \in 1..Len(call.documents.items) : call.documents.items[i].type = "Document"

\* the documents handed to the last run, and the documents it returned
InDocs == call.documents.items
OutDocs == result.value.documents.items

\* the configured target languages, in order
Languages ==
    IF component.target_lang.type = "list"
    THEN component.target_lang.items ELSE <<component.target_lang>>

\* a document run that returned its result for a list of at least one document
DocRunReturned ==
    /\ IsDocRun
    /\ InputIsDocumentList
    /\ Len(InDocs) >= 1
    /\ result.kind = "return"

\* what the client returned to the p-th call, and the language of that call
Response(p) == client_calls[p].outcome.value.items
PassLang(p) == client_calls[p].kwargs.target_lang

\* the number of records the p-th pass built (zip stops at the shorter list),
\* and the number of records the passes before the p-th built
PassLen(p) == Min(Len(InDocs), Len(Response(p)))
RECURSIVE Offset(_)
Offset(p) == IF p <= 1 THEN 0 ELSE Offset(p - 1) + PassLen(p - 1)

\* every record of the output belongs to one pass
OutputIsThePasses == Len(OutDocs) = Offset(Len(client_calls) + 1)

\* the record the p-th pass built from the j-th input document
Record(p, j) == OutDocs[Offset(p) + j]

\* the (pass, document) pairs that have a record
Built == {pj \in (1..Len(client_calls)) \X (1..Len(InDocs)) : pj[2] <= PassLen(pj[1])}

----------------------------------------------------------------------------
(* The properties.                                                         *)

\* C1: a run over M >= 1 documents with N target languages returns exactly
\* N*M records, the first M carrying language 1, the next M language 2, ...
\* (documents with empty or absent content included).
C1_NTimesM ==
    DocRunReturned =>
        /\ Len(OutDocs) = Len(Languages) * Len(InDocs)
        /\ \A k \in 1..Len(OutDocs) :
               OutDocs[k].meta["language"] = Languages[((k - 1) \div Len(InDocs)) + 1]

\* C2: the record built from input document d_i (carrying its metadata and
\* score) has as content the client's translation of d_i's own content.
C2_OwnTranslation ==
    DocRunReturned =>
        /\ OutputIsThePasses
        /\ \A pj \in Built :
               LET d == InDocs[pj[2]] IN
               /\ d.content.type = "str"
               /\ Record(pj[1], pj[2]).content =
                      Str(Translate(d.content.s, PassLang(pj[1]).s))

\* C3: the metadata of every returned record is its source document's
\* metadata overlaid with source_lang = the source language the client
\* reported for that translation and language = the language of the pass:
\* other keys keep their value, the caller's reserved keys are replaced.
C3_MetaOverlay ==
    DocRunReturned =>
        /\ OutputIsThePasses
        /\ \A pj \in Built :
               LET d == InDocs[pj[2]]
                   r == Record(pj[1], pj[2])
               IN  /\ DOMAIN r.meta = DOMAIN d.meta \cup {"source_lang", "language"}
                   /\ r.meta["source_lang"] = Response(pj[1])[pj[2]].detected_source_lang
                   /\ r.meta["language"] = PassLang(pj[1])
                   /\ \A k \in DOMAIN d.meta \ {"source_lang", "language"} :
                          r.meta[k] = d.meta[k]

\* C3 witness: a record was built from a document whose metadata held a
\* language other than the pass's, next to a key of the caller's own.
C3_Witness ==
    /\ DocRunReturned
    /\ \E pj \in Built :
           LET d == InDocs[pj[2]] IN
           /\ "language" \in DOMAIN d.meta
           /\ "meta_1" \in DOMAIN d.meta
           /\ d.meta["language"] # PassLang(pj[1])

\* the documents of the input whose metadata contains a reserved key
WithReservedKey ==
    {i \in 1..Len(InDocs) :
        "source_lang" \in DOMAIN InDocs[i].meta \/ "language" \in DOMAIN InDocs[i].meta}

\* the overwrite warnings the last call logged
OverwriteWarnings == SelectSeq(warnings, LAMBDA w : w = OverwriteWarning)

\* C4: when an input document's metadata contains source_lang or language,
\* whatever the value under it, a warning is logged for that document and the
\* run raises nothing of its own: it returns its result.
C4_WarnsOnReservedKey ==
    (/\ IsDocRun
     /\ InputIsDocumentList
     /\ Len(InDocs) >= 1
     /\ Len(Languages) >= 1
     /\ \A p \in 1..Len(client_calls) : client_calls[p].outcome.kind = "return")
    =>  /\ result.kind = "return"
        /\ Len(OverwriteWarnings) >= Cardinality(WithReservedKey)

\* C5: with include_score every returned record has the score of the input
\* document it was built from; without it every returned record has none.
C5_Score ==
    DocRunReturned =>
        /\ OutputIsThePasses
        /\ \A pj \in Built :
               Record(pj[1], pj[2]).score =
                   IF component.include_score THEN InDocs[pj[2]].score ELSE None

\* C5 witness: a component without include_score built a record from a
\* document that has a score.
C5_Witness ==
    /\ DocRunReturned
    /\ ~component.include_score
    /\ \E pj \in Built : InDocs[pj[2]].score # None

\* C6: run on the empty list returns {documents: []} and calls the client
\* not once, whatever the target languages.
C6_EmptyList ==
    (IsDocRun /\ call.documents = List(<<>>)) =>
        /\ result = Return([documents |-> List(<<>>)])
        /\ client_calls = <<>>

\* C6 witness: the empty list was handed to a component of two languages.
C6_Witness ==
    /\ IsDocRun
    /\ call.documents = List(<<>>)
    /\ Len(Languages) = 2
    /\ result.kind = "return"

\* C7: run on what is no list, or on a list with an element that is no
\* document, raises TypeError before any call to the client.
C7_TypeError ==
    (IsDocRun /\ ~InputIsDocumentList) =>
        /\ result = Raise("TypeError")
        /\ client_calls = <<>>

\* C7 witness: run was handed a list mixing a document and a string, and
\* raised TypeError.
C7_Witness ==
    /\ IsDocRun
    /\ call.documents.type = "list"
    /\ Len(call.documents.items) = 2
    /\ call.documents.items[1].type = "Document"
    /\ call.documents.items[2].type # "Document"
    /\ result = Raise("TypeError")

\* C8: the text component's run on the empty string raises ValueError and
\* calls the client not once.
C8_EmptyText ==
    (IsTextRun /\ call.text = Str("")) =>
        /\ result = Raise("ValueError")
        /\ client_calls = <<>>

\* C8 witness: run was handed the empty string and raised.
C8_Witness == IsTextRun /\ call.text = Str("") /\ result.kind = "raise"

\* C9: the text component's run on any value that is no string (None, 0 and
\* the empty list included) raises TypeError, not ValueError, and calls the
\* client not once.
C9_NonString ==
    (IsTextRun /\ call.text.type # "str") =>
        /\ result = Raise("TypeError")
        /\ client_calls = <<>>

\* C9 witness: run was handed the empty list, which is no string and counts
\* as false, and raised.
C9_Witness == IsTextRun /\ call.text = List(<<>>) /\ result.kind = "raise"

\* C10: a run of the text component on a non-empty string that the client
\* answers returns the client's text as translation, the configured target
\* language as meta.language and the source language the client reported
\* as meta.source_lang.
C10_TextResult ==
    (IsTextRun /\ call.text.type = "str" /\ call.text.s # "") =>
        /\ Len(client_calls) = 1
        /\ client_calls[1].text = call.text
        /\ client_calls[1].outcome.kind = "return" =>
               result =
                   Return([translation |-> client_calls[1].outcome.value.text,
                           meta |-> [source_lang |->
                                         client_calls[1].outcome.value.detected_source_lang,
                                     language |-> component.target_lang]])
        /\ result.kind = "return" => client_calls[1].outcome.kind = "return"

\* C10 witness: a component translating into FR returned the translation of
\* a text the client reported as English.
C10_Witness ==
    /\ IsTextRun
    /\ result.kind = "return"
    /\ component.target_lang = Str("FR")
    /\ result.value.meta["source_lang"] = Str("EN")
    /\ result.value.translation = Str(Translate("a", "FR"))

\* a language that is given: neither absent nor the empty string
Given(lang) == lang # None /\ lang # Str("")

\* the options of the configuration that steer a translation, the source
\* language apart
TranslationOptions ==
    {"target_lang", "formality", "preserve_formatting", "split_sentences", "context",
     "glossary", "tag_handling", "outline_detection", "non_splitting_tags",
     "splitting_tags", "ignore_tags"}

\* C11: in both components every call to the client carries as source
\* language the one handed to run if one is given, else the configured one
\* if one is given, else None; the empty string counts as not given.
C11_SourceLang ==
    (IsTextRun \/ IsDocRun) =>
        \A i \in 1..Len(client_calls) :
            client_calls[i].kwargs.source_lang =
                IF Given(call.source_lang) THEN call.source_lang
                ELSE IF Given(component.source_lang) THEN component.source_lang
                ELSE None

\* C11 witness: a document run handed "" as source language on a component
\* configured with DE called the client.
C11_Witness ==
    /\ IsDocRun
    /\ call.source_lang = Str("")
    /\ component.source_lang = Str("DE")
    /\ Len(client_calls) >= 1

\* C12: the one call a text run makes to the client carries the text handed
\* to run and the eleven configured translation options with the values the
\* component stores, and besides the source language no other option.
C12_TextCall ==
    (IsTextRun /\ client_calls # <<>>) =>
        /\ Len(client_calls) = 1
        /\ client_calls[1].text = call.text
        /\ DOMAIN client_calls[1].kwargs = TranslationOptions \cup {"source_lang"}
        /\ \A k \in TranslationOptions : client_calls[1].kwargs[k] = component[k]

\* C12 witness: a text component with every option away from its default
\* called the client.
C12_Witness ==
    /\ IsTextRun
    /\ Len(client_calls) = 1
    /\ component.preserve_formatting
    /\ ~component.outline_detection
    /\ component.formality = Member("Formality", "more")
    /\ component.split_sentences = Member("SplitSentences", "nonewlines")
    /\ component.context = Str("context")

IsToDict == call.op \in {"DeepLTextTranslator.to_dict", "DeepLDocumentTranslator.to_dict"}
IsFromDict == call.op \in {"DeepLTextTranslator.from_dict", "DeepLDocumentTranslator.from_dict"}

\* the parameters of the constructor that are configuration: all of them but
\* the credential
ConfigurationFields ==
    TranslationOptions \cup {"source_lang", "max_retries"}
        \cup (IF component.cls = "DeepLDocumentTranslator" THEN {"include_score"} ELSE {})

\* what to_dict gives for the caller's component
Serialized ==
    IF component.cls = "DeepLTextTranslator"
    THEN DeepLTextTranslator_to_dict_result(component)
    ELSE DeepLDocumentTranslator_to_dict_result(component)

\* the last call was from_dict on the mapping to_dict gives for the caller's
\* component
RoundTrip == IsFromDict /\ component # NoComponent /\ call.data = Serialized

\* C13: from_dict(to_dict(component)) returns a component that agrees with
\* the original on every configuration parameter of the constructor,
\* max_retries included.
C13_RoundTrip ==
    RoundTrip =>
        /\ result.kind = "return"
        /\ \A k \in ConfigurationFields : result.value[k] = component[k]

\* the parameters that hold a bool
BoolParameters == {"preserve_formatting", "outline_detection", "include_score"}

\* every string a serialized component holds, at any depth
StringsIn(mapping) ==
    LET ip == mapping.init_parameters
        plain == {k \in DOMAIN ip \ (BoolParameters \cup {"api_key"}) : ip[k].type = "str"}
    IN  {mapping.type} \cup {ip[k].s : k \in plain}
            \cup {ip.api_key.type.s}
            \cup {ip.api_key.env_vars.items[i].s : i \in 1..Len(ip.api_key.env_vars.items)}

\* C14: the mapping to_dict returns holds the credential as a reference
\* (type, env_vars, strict) to the component's variable, holds the resolved
\* secret nowhere, and holds formality and split_sentences as the strings
\* that are the values of the stored enumeration members.
C14_ToDict ==
    (IsToDict /\ result.kind = "return") =>
        LET ip == result.value.init_parameters IN
        /\ DOMAIN ip.api_key = {"type", "env_vars", "strict"}
        /\ ip.api_key.type = Str("env_var")
        /\ ip.api_key.env_vars =
               List([i \in 1..Len(component.api_key._env_vars) |->
                        Str(component.api_key._env_vars[i])])
        /\ ip.api_key.strict = component.api_key._strict
        /\ DOMAIN result.value = {"type", "init_parameters"}
        /\ "client" \notin DOMAIN ip
        /\ component.client.auth_key \notin StringsIn(result.value)
        /\ \A k \in {"formality", "split_sentences"} :
               ip[k].type = "str" /\ ip[k] = component[k].value

\* C14 witness: to_dict returned for a component holding the resolved key
\* and the members MORE and NO_NEWLINES.
C14_Witness ==
    /\ IsToDict
    /\ result.kind = "return"
    /\ component.client.auth_key = "fake-api-key"
    /\ component.formality = Member("Formality", "more")
    /\ component.split_sentences = Member("SplitSentences", "nonewlines")
    /\ result.value.init_parameters.formality = Str("more")

IsInit == call.op \in {"DeepLTextTranslator.__init__", "DeepLDocumentTranslator.__init__"}

\* the variable the default credential refers to is not set
Unset == "DEEPL_API_KEY" \notin DOMAIN environ

IsTextClass ==
    call.op \in {"DeepLTextTranslator.__init__", "DeepLTextTranslator.from_dict"}

\* the target_lang the last construction (direct or through from_dict) was
\* handed
GivenTargetLang ==
    IF IsInit THEN call.args.target_lang ELSE call.data.init_parameters.target_lang

\* that target_lang is one the class takes: a non-empty string for the text
\* component, a string or a list of strings for the document component
TargetLangTaken ==
    LET t == GivenTargetLang IN
    IF IsTextClass THEN t.type = "str" /\ t.s # ""
    ELSE \/ t.type = "str"
         \/ t.type = "list" /\ \A i \in 1..Len(t.items) : t.items[i].type = "str"

\* C15: with the variable of the strict credential unset, the constructor of
\* either component (given a target_lang it accepts) and from_dict on a
\* mapping that refers to that variable raise the credential's ValueError
\* and leave the caller without a component.
C15_NoCredential ==
    ((IsInit \/ IsFromDict) /\ Unset /\ TargetLangTaken) =>
        /\ result = RaiseMsg("ValueError", NoCredential)
        /\ component = NoComponent

\* C15 witness: from_dict of the document component was called with the
\* variable unset (and another state: its constructor was).
C15_Witness ==
    /\ Unset
    /\ call.op = "DeepLDocumentTranslator.from_dict"
    /\ call.data.init_parameters.api_key.strict
    /\ call.data.init_parameters.api_key.env_vars = List(<<Str("DEEPL_API_KEY")>>)

\* the target_lang handed to the constructor is of a type the class does
\* not take: no string for the text component; neither a string nor a list
\* of strings for the document component
InvalidTargetLangType ==
    LET t == call.args.target_lang IN
    IF IsTextClass THEN t.type # "str"
    ELSE ~ \/ t.type = "str"
           \/ t.type = "list" /\ \A i \in 1..Len(t.items) : t.items[i].type = "str"

\* C16 as claimed: either constructor, handed a target_lang of invalid type,
\* raises TypeError, and no call to the client has been made.
C16_TypeError ==
    (IsInit /\ InvalidTargetLangType) =>
        /\ result.kind = "raise"
        /\ result.exc = "TypeError"
        /\ client_calls = <<>>

\* C16 amended: handed a target_lang of invalid type, the constructor of the
\* document component raises TypeError and the constructor of the text
\* component raises ValueError, each with its message about target_lang; no
\* component results and no call to the client has been made.
C16_ByClass ==
    (IsInit /\ InvalidTargetLangType) =>
        /\ result = IF IsTextClass THEN RaiseMsg("ValueError", TextTargetLangMessage)
                    ELSE RaiseMsg("TypeError", DocTargetLangMessage)
        /\ component = NoComponent
        /\ client_calls = <<>>

\* C16 witness: the text component's constructor was handed a list of one
\* language code and raised (other states: None, an integer, and for the
\* document component a list with an integer in it).
C16_Witness ==
    /\ call.op = "DeepLTextTranslator.__init__"
    /\ call.args.target_lang = List(<<Str("ES")>>)
    /\ result.kind = "raise"

\* the calls of the last run that the client answered with an exception
FailedCalls == {i \in 1..Len(client_calls) : client_calls[i].outcome.kind = "raise"}

\* C17: when a call of a run to the client raises, the run ends with that
\* very exception, the failed call is the last one the run made (it is not
\* repeated and none follows it) and the run returns no result.
C17_Propagates ==
    (IsTextRun \/ IsDocRun) =>
        \A i \in FailedCalls :
            /\ result = client_calls[i].outcome
            /\ result = Raise("DeepLException")
            /\ i = Len(client_calls)

\* C17 witness: a document run over two languages whose first call to the
\* client raised.
C17_Witness ==
    /\ IsDocRun
    /\ Len(Languages) = 2
    /\ 1 \in FailedCalls

RunAndToDict ==
    {"DeepLTextTranslator.run", "DeepLDocumentTranslator.run",
     "DeepLTextTranslator.to_dict", "DeepLDocumentTranslator.to_dict"}

\* C18: a call of run or to_dict on a component, whether it returns or
\* raises, leaves the credential and every configuration field of the
\* component as they were; so they stay as the constructor set them, and a
\* source language handed to run does not become the configured one.
C18_ConfigurationKept ==
    [][(component # NoComponent /\ call'.op \in RunAndToDict) =>
          \A k \in ConfigurationFields \cup {"api_key"} : component'[k] = component[k]]_vars

\* C18 witness: a run handed IT as source language returned on a component
\* configured with DE, which it still holds.
C18_Witness ==
    /\ IsTextRun
    /\ call.source_lang = Str("IT")
    /\ result.kind = "return"
    /\ component.source_lang = Str("DE")

\* C19: a constructor handed split_sentences = 0 that returns has built a
\* component whose split_sentences is OFF, the member of value "0", and not
\* the default ALL.
C19_ZeroIsOff ==
    (IsInit /\ result.kind = "return" /\ call.args.split_sentences = PyInt(0)) =>
        component.split_sentences = Member("SplitSentences", "0")

\* C20: every call a document run makes to the client carries the nine
\* configured options preserve_formatting, split_sentences, context,
\* glossary, tag_handling, outline_detection, non_splitting_tags,
\* splitting_tags and ignore_tags with the values the component stores, as
\* the call of a text run does.
C20_DocCallOptions ==
    IsDocRun =>
        \A i \in 1..Len(client_calls) :
            \A k \in TranslationOptions \ {"target_lang", "formality"} :
                /\ k \in DOMAIN client_calls[i].kwargs
                /\ client_calls[i].kwargs[k] = component[k]

\* a document run on a list of at least one document
DocRunOnDocuments == IsDocRun /\ InputIsDocumentList /\ Len(InDocs) >= 1

\* C21: a document run on a non-empty list calls the client once per target
\* language, in the configured order; when the call for a language raises,
\* it is the last call made and the run raises instead of returning the
\* records of the languages before; when none raises, every language has
\* its call and the run returns.
C21_OneCallPerLanguage ==
    DocRunOnDocuments =>
        /\ Len(client_calls) <= Len(Languages)
        /\ \A i \in 1..Len(client_calls) : client_calls[i].kwargs.target_lang = Languages[i]
        /\ \A k \in FailedCalls : k = Len(client_calls) /\ result.kind = "raise"
        /\ FailedCalls = {} => Len(client_calls) = Len(Languages) /\ result.kind = "return"

\* C21 witness: over two different languages the first call was answered
\* and the second raised.
C21_Witness ==
    /\ DocRunOnDocuments
    /\ Len(Languages) = 2
    /\ Languages[1] # Languages[2]
    /\ FailedCalls = {2}

\* the input documents whose content is a non-empty string
HasContent(d) == d.content # None /\ d.content # Str("")
WithContent == SelectSeq(InDocs, HasContent)

\* C22: every call of a document run carries as batch the contents of the
\* input documents that have a non-empty content, in input order, and no
\* other text.
C22_Batch ==
    DocRunOnDocuments =>
        \A i \in 1..Len(client_calls) :
            client_calls[i].text = List([j \in 1..Len(WithContent) |-> WithContent[j].content])

\* C22 witness: of two documents the first had the empty string as content,
\* and the batch was the content of the second alone.
C22_Witness ==
    /\ DocRunOnDocuments
    /\ Len(InDocs) = 2
    /\ InDocs[1].content = Str("")
    /\ Len(client_calls) >= 1
    /\ client_calls[1].text = List(<<Str("a")>>)

\* C23: a constructed document component iterates over at least one target
\* language, and each is a non-empty string: neither the empty list nor
\* the empty string gets through the constructor.
C23_TargetLanguages ==
    component.cls = "DeepLDocumentTranslator" =>
        /\ Len(Languages) >= 1
        /\ \A i \in 1..Len(Languages) :
               Languages[i].type = "str" /\ Languages[i].s # ""

\* C24: the tag_handling of a constructed component is None, "xml" or
\* "html": a constructor handed another value builds no component.
C24_TagHandling ==
    component # NoComponent =>
        component.tag_handling \in {None, Str("xml"), Str("html")}

\* C25: whatever a document run is handed, and however it ends, the list
\* is afterwards as it was handed in: the same documents in the same
\* order, each with its content, metadata and score; and every record of
\* the output carries in its own metadata the language of its own pass.
C25_InputKept ==
    IsDocRun =>
        /\ input_documents = call.documents
        /\ DocRunReturned =>
               \A pj \in Built : Record(pj[1], pj[2]).meta["language"] = PassLang(pj[1])

\* C25 witness: a run over two different languages returned records for a
\* document whose metadata held a language of its own.
C25_Witness ==
    /\ DocRunReturned
    /\ Len(Languages) = 2
    /\ Languages[1] # Languages[2]
    /\ Len(OutDocs) >= 2
    /\ "language" \in DOMAIN InDocs[1].meta
    /\ input_documents = call.documents

\* C26: whenever a run of a component has called the client, the client
\* library's max_network_retries is that component's max_retries, whatever
\* was constructed since the component was.
C26_OwnRetries ==
    ((IsTextRun \/ IsDocRun) /\ client_calls # <<>>) =>
        max_network_retries = component.max_retries

InitOps == {"DeepLTextTranslator.__init__", "DeepLDocumentTranslator.__init__"}

\* C27: a constructor that raises, whatever for, leaves the client
\* library's max_network_retries at the value it had when the constructor
\* was called.
C27_FailureKeepsRetries ==
    [][(call'.op \in InitOps /\ result'.kind = "raise") =>
          max_network_retries' = max_network_retries]_vars

\* the target_lang t is one the class constructed by operation op takes
Takes(op, t) ==
    IF op = "DeepLTextTranslator.__init__" THEN t.type = "str" /\ t.s # ""
    ELSE \/ t.type = "str"
         \/ t.type = "list" /\ \A i \in 1..Len(t.items) : t.items[i].type = "str"

\* C28: a constructor handed a target_lang it does not take, while the
\* variable of the credential is unset, raises the error about target_lang
\* (ValueError in the text component, TypeError in the document component)
\* and not the credential's; it stops before the lines that set
\* max_network_retries, resolve the credential and create the client: the
\* setting is as before and no component, hence no client, results.
C28_TargetLangFirst ==
    [][(call'.op \in InitOps /\ Unset /\ ~Takes(call'.op, call'.args.target_lang)) =>
          /\ result' = IF call'.op = "DeepLTextTranslator.__init__"
                        THEN RaiseMsg("ValueError", TextTargetLangMessage)
                        ELSE RaiseMsg("TypeError", DocTargetLangMessage)
          /\ component' = NoComponent
          /\ max_network_retries' = max_network_retries]_vars

\* C28 witness: with the variable unset, the document component's
\* constructor was handed the target_lang 1 and max_retries = 3, and raised
\* with max_network_retries still 5.
C28_Witness ==
    /\ Unset
    /\ call.op = "DeepLDocumentTranslator.__init__"
    /\ call.args.target_lang = PyInt(1)
    /\ call.args.max_retries = PyInt(3)
    /\ result.kind = "raise"
    /\ max_network_retries = PyInt(5)

\* C29: after from_dict(data), whether it returned or raised, data holds
\* under init_parameters.api_key the credential object for the variables
\* the serialized reference named, no longer that reference, and every
\* other entry of data is as it was handed in.
C29_MappingModified ==
    IsFromDict =>
        LET before == call.data.init_parameters
            after == data.init_parameters
        IN  /\ DOMAIN data = DOMAIN call.data
            /\ data.type = call.data.type
            /\ DOMAIN after = DOMAIN before
            /\ \A k \in DOMAIN before \ {"api_key"} : after[k] = before[k]
            /\ DOMAIN after.api_key = {"type", "_env_vars", "_strict"}
            /\ after.api_key.type = "EnvVarSecret"
            /\ after.api_key._strict = before.api_key.strict
            /\ after.api_key._env_vars =
                   [i \in 1..Len(before.api_key.env_vars.items) |->
                       before.api_key.env_vars.items[i].s]

\* C29 witness: from_dict of the text component returned a component for
\* the mapping to_dict had given.
C29_Witness ==
    /\ call.op = "DeepLTextTranslator.from_dict"
    /\ result.kind = "return"
    /\ call.data = Serialized
    /\ call.data.init_parameters.api_key.type = Str("env_var")

\* the earlier run was handed a list of documents and the client answered
EarlierRunAnswered ==
    /\ call.op = translator_cls \o ".run"
    /\ DocInputOk(call.documents)
    /\ Len(client_calls) = 1
    /\ client_calls[1].outcome.kind = "return"

\* C30: when the earlier run is handed documents of which one already has
\* the key source_lang or language in its metadata, and the client answers,
\* the run raises nothing: it returns one record per document, each with
\* source_lang set to the detected language and language to the
\* component's target language.
C30_ReservedKeyOverwritten ==
    (/\ EarlierRunAnswered
     /\ \E i \in 1..Len(call.documents.items) :
            DOMAIN call.documents.items[i].meta \cap ReservedKeys # {})
        => /\ result.kind = "return"
           /\ Len(result.value.documents.items) = Len(call.documents.items)
           /\ \A i \in 1..Len(call.documents.items) :
                  LET meta == result.value.documents.items[i].meta
                      translation == client_calls[1].outcome.value.items[i]
                  IN  /\ meta.source_lang = translation.detected_source_lang
                      /\ meta.language = component.target_lang

====
